---- MODULE Spec2Model ----
(***************************************************************************)
(* Model of the utility-class parser of gio-shadcn (package utils):        *)
(* ClassNames, ParseClasses, parseClass and its lookup tables.             *)
(*                                                                         *)
(* Strings are TLA+ strings; Len, SubSeq and \o act on them character by   *)
(* character.  unit.Dp values are the integers the tables hold.  Opacity   *)
(* (float32) is held in hundredths: 1.0 is 100, 0.9 is 90, 0.05 is 5.      *)
(* A nil pointer is the empty sequence <<>>, a pointer to v is <<v>>.      *)
(***************************************************************************)
EXTENDS Integers, Sequences, FiniteSets, TLC

VARIABLES classes, classString, classList, i, style, pc

(* Several calls of ParseClasses in flight: calls[c] is the activation of  *)
(* call c, accum holds the accumulators the activations write.             *)
VARIABLES calls, accum

(* A component that is laid out frame after frame: widget names it, button *)
(* and card hold its fields, frame what its last Layout call computed.     *)
VARIABLES widget, button, card, frame

(* What the last call of Button.Clicked or Button.SafeLayout returned. *)
VARIABLES answer

(* One token after another through the switch of parseClass: toFold holds  *)
(* the tokens, at the one being folded, tested how many case guards were   *)
(* evaluated for it, initial the record before the first token and folded  *)
(* the record now.                                                         *)
VARIABLES toFold, at, tested, initial, folded

(* The theme the components are laid out with, and the values it had     *)
(* before its last two ToggleDark calls (oldest first).                    *)
VARIABLES th, toggled

(* A window title bar and the window actions its last Layout call         *)
(* performed, in the order they were performed.                            *)
VARIABLES tb, performed

parserVars == <<classes, classString, classList, i, style, pc>>

callVars == <<calls, accum>>

widgetVars == <<widget, button, card, frame, answer>>

switchVars == <<toFold, at, tested, initial, folded>>

themeVars == <<th, toggled>>

titleVars == <<tb, performed>>

vars == <<parserVars, callVars, widgetVars, switchVars, themeVars, titleVars>>

-----------------------------------------------------------------------------
(* Bounds of the explored inputs *)

MaxTokens == 3

MaxWide == 2

MaxArgs == 2

MaxCalls == 2

MaxFold == 2

-----------------------------------------------------------------------------
(* Records of the package *)

ZeroInset == [Top |-> 0, Bottom |-> 0, Left |-> 0, Right |-> 0]

UniformInset(v) == [Top |-> v, Bottom |-> v, Left |-> v, Right |-> v]

ZeroColor == [R |-> 0, G |-> 0, B |-> 0, A |-> 0]

BorderStyle == [Color |-> ZeroColor, Width |-> 0]

StyleUtility ==
    [Padding |-> ZeroInset, Margin |-> ZeroInset, Background |-> ZeroColor,
     Border |-> BorderStyle, Radius |-> 0, Width |-> 0, Height |-> 0,
     Opacity |-> 0]

InitialStyle_zeroOpacity == StyleUtility

InitialStyle == [StyleUtility EXCEPT !.Opacity = 100]

-----------------------------------------------------------------------------
(* Strings *)

Space == {" ", "\t", "\n", "\r", "\f"}

HasPrefix_firstByte(s, prefix) ==
    Len(s) >= 1 /\ SubSeq(s, 1, 1) = SubSeq(prefix, 1, 1)

HasPrefix(s, prefix) ==
    Len(s) >= Len(prefix) /\ SubSeq(s, 1, Len(prefix)) = prefix

Slice(s, n) == SubSeq(s, n + 1, Len(s))

RECURSIVE Join(_, _)
Join(elems, sep) ==
    IF Len(elems) = 0 THEN ""
    ELSE IF Len(elems) = 1 THEN elems[1]
    ELSE elems[1] \o sep \o Join(Tail(elems), sep)

NonEmpty_keepAll(cs) == cs

RECURSIVE NonEmpty(_)
NonEmpty(cs) ==
    IF Len(cs) = 0 THEN <<>>
    ELSE IF Head(cs) # "" THEN <<Head(cs)>> \o NonEmpty(Tail(cs))
    ELSE NonEmpty(Tail(cs))

ClassNames_concat(cs) == Join(NonEmpty(cs), "")

ClassNames(cs) == Join(NonEmpty(cs), " ")

RECURSIVE FieldsFrom(_, _, _, _)
FieldsFrom(s, k, cur, acc) ==
    IF k > Len(s)
    THEN IF cur = "" THEN acc ELSE Append(acc, cur)
    ELSE LET c == SubSeq(s, k, k)
         IN  IF c \in Space
             THEN FieldsFrom(s, k + 1, "", IF cur = "" THEN acc ELSE Append(acc, cur))
             ELSE FieldsFrom(s, k + 1, cur \o c, acc)

Fields(s) == FieldsFrom(s, 1, "", <<>>)

-----------------------------------------------------------------------------
(* Lookup tables *)

spacingMap_typo ==
    [k \in {"0", "1", "2", "3", "4", "5", "6", "8", "10", "12", "16", "20",
            "24", "32", "40", "48", "56", "64"} |->
        CASE k = "0" -> 0
          [] k = "1" -> 4
          [] k = "2" -> 8
          [] k = "3" -> 12
          [] k = "4" -> 16
          [] k = "5" -> 20
          [] k = "6" -> 24
          [] k = "8" -> 32
          [] k = "10" -> 40
          [] k = "12" -> 48
          [] k = "16" -> 64
          [] k = "20" -> 80
          [] k = "24" -> 96
          [] k = "32" -> 128
          [] k = "40" -> 160
          [] k = "48" -> 192
          [] k = "56" -> 244
          [] k = "64" -> 256]

spacingMap ==
    [k \in {"0", "1", "2", "3", "4", "5", "6", "8", "10", "12", "16", "20",
            "24", "32", "40", "48", "56", "64"} |->
        CASE k = "0" -> 0
          [] k = "1" -> 4
          [] k = "2" -> 8
          [] k = "3" -> 12
          [] k = "4" -> 16
          [] k = "5" -> 20
          [] k = "6" -> 24
          [] k = "8" -> 32
          [] k = "10" -> 40
          [] k = "12" -> 48
          [] k = "16" -> 64
          [] k = "20" -> 80
          [] k = "24" -> 96
          [] k = "32" -> 128
          [] k = "40" -> 160
          [] k = "48" -> 192
          [] k = "56" -> 224
          [] k = "64" -> 256]

parseSpacing_atoi(value) ==
    IF value \in DOMAIN spacingMap THEN <<spacingMap[value]>>
    ELSE IF value = "-4" THEN <<-16>>
    ELSE IF value = "04" THEN <<16>>
    ELSE <<>>

parseSpacing_fallback(value) ==
    IF value \in DOMAIN spacingMap THEN <<spacingMap[value]>> ELSE <<0>>

parseSpacing(value) ==
    IF value \in DOMAIN spacingMap THEN <<spacingMap[value]>> ELSE <<>>

radiusMap_drift ==
    [k \in {"none", "sm", "", "md", "lg", "xl", "2xl", "3xl", "full"} |->
        CASE k = "none" -> 0
          [] k = "sm" -> 2
          [] k = "" -> 4
          [] k = "md" -> 6
          [] k = "lg" -> 8
          [] k = "xl" -> 10
          [] k = "2xl" -> 16
          [] k = "3xl" -> 24
          [] k = "full" -> 9999]

radiusMap ==
    [k \in {"none", "sm", "", "md", "lg", "xl", "2xl", "3xl", "full"} |->
        CASE k = "none" -> 0
          [] k = "sm" -> 2
          [] k = "" -> 4
          [] k = "md" -> 6
          [] k = "lg" -> 8
          [] k = "xl" -> 12
          [] k = "2xl" -> 16
          [] k = "3xl" -> 24
          [] k = "full" -> 9999]

parseRadius_fallback(value) ==
    IF value \in DOMAIN radiusMap THEN <<radiusMap[value]>> ELSE <<radiusMap[""]>>

parseRadius(value) ==
    IF value \in DOMAIN radiusMap THEN <<radiusMap[value]>> ELSE <<>>

NRGBA(r, g, b, a) == [R |-> r, G |-> g, B |-> b, A |-> a]

colorMap ==
    [k \in {"transparent", "black", "white", "red", "green", "blue", "yellow",
            "purple", "pink", "indigo", "gray"} |->
        CASE k = "transparent" -> NRGBA(0, 0, 0, 0)
          [] k = "black" -> NRGBA(0, 0, 0, 255)
          [] k = "white" -> NRGBA(255, 255, 255, 255)
          [] k = "red" -> NRGBA(239, 68, 68, 255)
          [] k = "green" -> NRGBA(34, 197, 94, 255)
          [] k = "blue" -> NRGBA(59, 130, 246, 255)
          [] k = "yellow" -> NRGBA(251, 191, 36, 255)
          [] k = "purple" -> NRGBA(147, 51, 234, 255)
          [] k = "pink" -> NRGBA(236, 72, 153, 255)
          [] k = "indigo" -> NRGBA(99, 102, 241, 255)
          [] k = "gray" -> NRGBA(156, 163, 175, 255)]

parseColor(value) ==
    IF value \in DOMAIN colorMap THEN <<colorMap[value]>> ELSE <<>>

opacityMap ==
    [k \in {"0", "5", "10", "20", "25", "30", "40", "50", "60", "70", "75",
            "80", "90", "95", "100"} |->
        CASE k = "0" -> 0
          [] k = "5" -> 5
          [] k = "10" -> 10
          [] k = "20" -> 20
          [] k = "25" -> 25
          [] k = "30" -> 30
          [] k = "40" -> 40
          [] k = "50" -> 50
          [] k = "60" -> 60
          [] k = "70" -> 70
          [] k = "75" -> 75
          [] k = "80" -> 80
          [] k = "90" -> 90
          [] k = "95" -> 95
          [] k = "100" -> 100]

parseOpacity_atoi(value) ==
    IF value \in DOMAIN opacityMap THEN <<opacityMap[value]>>
    ELSE IF value = "150" THEN <<150>>
    ELSE IF value = "33" THEN <<33>>
    ELSE <<>>

parseOpacity(value) ==
    IF value \in DOMAIN opacityMap THEN <<opacityMap[value]>> ELSE <<>>

-----------------------------------------------------------------------------
(* parseClass: the case guards of the switch, in source order.  A prefix   *)
(* case slices the token at cut (class[cut:]); an exact case compares the  *)
(* whole token.                                                            *)

Prefix(lit, cut) == [kind |-> "prefix", lit |-> lit, cut |-> cut]

Exact(lit) == [kind |-> "exact", lit |-> lit, cut |-> 0]

Cases_shortSlice ==
    << Prefix("p-", 2), Prefix("px-", 3), Prefix("py-", 3), Prefix("pt-", 3),
       Prefix("pr-", 3), Prefix("pb-", 3), Prefix("pl-", 3),
       Prefix("m-", 2), Prefix("mx-", 3), Prefix("my-", 3),
       Prefix("rounded-", 9), Exact("rounded"),
       Prefix("bg-", 3),
       Prefix("border-", 8), Exact("border"),
       Prefix("opacity-", 9) >>

Cases_bareBorderFirst ==
    << Prefix("p-", 2), Prefix("px-", 3), Prefix("py-", 3), Prefix("pt-", 3),
       Prefix("pr-", 3), Prefix("pb-", 3), Prefix("pl-", 3),
       Prefix("m-", 2), Prefix("mx-", 3), Prefix("my-", 3),
       Prefix("rounded-", 8), Exact("rounded"),
       Prefix("bg-", 3),
       Prefix("border", 6), Exact("border"),
       Prefix("opacity-", 8) >>

Cases_specificFirst ==
    << Prefix("px-", 3), Prefix("py-", 3), Prefix("pt-", 3), Prefix("pr-", 3),
       Prefix("pb-", 3), Prefix("pl-", 3), Prefix("p-", 2),
       Prefix("mx-", 3), Prefix("my-", 3), Prefix("m-", 2),
       Prefix("rounded-", 8), Exact("rounded"),
       Prefix("bg-", 3),
       Prefix("border-", 7), Exact("border"),
       Prefix("opacity-", 8) >>

Cases_roundedPrefix ==
    << Prefix("p-", 2), Prefix("px-", 3), Prefix("py-", 3), Prefix("pt-", 3),
       Prefix("pr-", 3), Prefix("pb-", 3), Prefix("pl-", 3),
       Prefix("m-", 2), Prefix("mx-", 3), Prefix("my-", 3),
       Prefix("rounded", 7), Exact("rounded"),
       Prefix("bg-", 3),
       Prefix("border-", 7), Exact("border"),
       Prefix("opacity-", 8) >>

Cases ==
    << Prefix("p-", 2), Prefix("px-", 3), Prefix("py-", 3), Prefix("pt-", 3),
       Prefix("pr-", 3), Prefix("pb-", 3), Prefix("pl-", 3),
       Prefix("m-", 2), Prefix("mx-", 3), Prefix("my-", 3),
       Prefix("rounded-", 8), Exact("rounded"),
       Prefix("bg-", 3),
       Prefix("border-", 7), Exact("border"),
       Prefix("opacity-", 8) >>

caseHolds_fold(c, class) ==
    LET first == IF Len(class) >= 1 THEN SubSeq(class, 1, 1) ELSE ""
        lower == IF first = "R" THEN "r" \o Slice(class, 1)
                 ELSE IF first = "P" THEN "p" \o Slice(class, 1)
                 ELSE class
    IN  IF c.kind = "prefix" THEN HasPrefix(lower, c.lit) ELSE lower = c.lit

caseHolds(c, class) ==
    IF c.kind = "prefix" THEN HasPrefix(class, c.lit) ELSE class = c.lit

(* The index of the first case whose guard holds, 0 when none does. *)
switchCase(class) ==
    LET holds == {k \in DOMAIN Cases : caseHolds(Cases[k], class)}
    IN  IF holds = {} THEN 0
        ELSE CHOOSE k \in holds : \A j \in holds : k <= j

(* class[cut:] panics when cut exceeds len(class). *)
slicePanics(class) ==
    LET k == switchCase(class)
    IN  k # 0 /\ Cases[k].kind = "prefix" /\ Cases[k].cut > Len(class)

(* The body of case k applied to the token. *)
caseBody(k, class, s) ==
    LET arg == IF k = 0 THEN "" ELSE Slice(class, Cases[k].cut)
    IN  CASE k = 1 ->
              LET spacing == parseSpacing(arg)
              IN  IF spacing # <<>>
                  THEN [s EXCEPT !.Padding = UniformInset(spacing[1])]
                  ELSE s
          [] k = 2 ->
              LET spacing == parseSpacing(arg)
              IN  IF spacing # <<>>
                  THEN [s EXCEPT !.Padding.Left = spacing[1],
                                 !.Padding.Right = spacing[1]]
                  ELSE s
          [] k = 3 ->
              LET spacing == parseSpacing(arg)
              IN  IF spacing # <<>>
                  THEN [s EXCEPT !.Padding.Top = spacing[1],
                                 !.Padding.Bottom = spacing[1]]
                  ELSE s
          [] k = 4 ->
              LET spacing == parseSpacing(arg)
              IN  IF spacing # <<>>
                  THEN [s EXCEPT !.Padding.Top = spacing[1]]
                  ELSE s
          [] k = 5 ->
              LET spacing == parseSpacing(arg)
              IN  IF spacing # <<>>
                  THEN [s EXCEPT !.Padding.Right = spacing[1]]
                  ELSE s
          [] k = 6 ->
              LET spacing == parseSpacing(arg)
              IN  IF spacing # <<>>
                  THEN [s EXCEPT !.Padding.Bottom = spacing[1]]
                  ELSE s
          [] k = 7 ->
              LET spacing == parseSpacing(arg)
              IN  IF spacing # <<>>
                  THEN [s EXCEPT !.Padding.Left = spacing[1]]
                  ELSE s
          [] k = 8 ->
              LET spacing == parseSpacing(arg)
              IN  IF spacing # <<>>
                  THEN [s EXCEPT !.Margin = UniformInset(spacing[1])]
                  ELSE s
          [] k = 9 ->
              LET spacing == parseSpacing(arg)
              IN  IF spacing # <<>>
                  THEN [s EXCEPT !.Margin.Left = spacing[1],
                                 !.Margin.Right = spacing[1]]
                  ELSE s
          [] k = 10 ->
              LET spacing == parseSpacing(arg)
              IN  IF spacing # <<>>
                  THEN [s EXCEPT !.Margin.Top = spacing[1],
                                 !.Margin.Bottom = spacing[1]]
                  ELSE s
          [] k = 11 ->
              LET radius == parseRadius(arg)
              IN  IF radius # <<>> THEN [s EXCEPT !.Radius = radius[1]] ELSE s
          [] k = 12 -> [s EXCEPT !.Radius = 4]
          [] k = 13 ->
              LET bgColor == parseColor(arg)
              IN  IF bgColor # <<>>
                  THEN [s EXCEPT !.Background = bgColor[1]]
                  ELSE s
          [] k = 14 ->
              LET borderColor == parseColor(arg)
              IN  IF borderColor # <<>>
                  THEN [s EXCEPT !.Border.Color = borderColor[1]]
                  ELSE s
          [] k = 15 -> [s EXCEPT !.Border.Width = 1]
          [] k = 16 ->
              LET opacity == parseOpacity(arg)
              IN  IF opacity # <<>> THEN [s EXCEPT !.Opacity = opacity[1]] ELSE s
          [] OTHER -> s

parseClass_bgFirstWins(class, s) ==
    IF switchCase(class) = 13 /\ s.Background # ZeroColor
    THEN s
    ELSE caseBody(switchCase(class), class, s)

parseClass_pxAsPy(class, s) ==
    caseBody(IF switchCase(class) = 2 THEN 3 ELSE switchCase(class), class, s)

parseClass_borderColorSetsWidth(class, s) ==
    LET t == caseBody(switchCase(class), class, s)
    IN  IF switchCase(class) = 14 /\ t # s
        THEN [t EXCEPT !.Border.Width = 1]
        ELSE t

parseClass_marginAsPadding(class, s) ==
    caseBody(IF switchCase(class) = 8 THEN 1 ELSE switchCase(class), class, s)

parseClass_pxUniform(class, s) ==
    IF switchCase(class) = 2
    THEN LET spacing == parseSpacing(Slice(class, 3))
         IN  IF spacing # <<>>
             THEN [s EXCEPT !.Padding = UniformInset(spacing[1])]
             ELSE s
    ELSE caseBody(switchCase(class), class, s)

parseClass(class, s) == caseBody(switchCase(class), class, s)

-----------------------------------------------------------------------------
(* ParseClasses as a function of its arguments *)

RECURSIVE parseAll(_, _, _)
parseAll(toks, k, s) ==
    IF k > Len(toks) THEN s ELSE parseAll(toks, k + 1, parseClass(toks[k], s))

ParseClasses(cs) == parseAll(Fields(ClassNames(cs)), 1, InitialStyle)

-----------------------------------------------------------------------------
(* The theme the components are laid out with: theme.New() *)

DefaultSpacing ==
    [Space0 |-> 0, Space1 |-> 4, Space2 |-> 8, Space3 |-> 12, Space4 |-> 16,
     Space5 |-> 20, Space6 |-> 24, Space7 |-> 28, Space8 |-> 32, Space9 |-> 36,
     Space10 |-> 40, Space11 |-> 44, Space12 |-> 48, Space14 |-> 56,
     Space16 |-> 64, Space20 |-> 80, Space24 |-> 96, Space28 |-> 112,
     Space32 |-> 128, Space36 |-> 144, Space40 |-> 160, Space44 |-> 176,
     Space48 |-> 192, Space52 |-> 208, Space56 |-> 224, Space60 |-> 240,
     Space64 |-> 256, Space72 |-> 288, Space80 |-> 320, Space96 |-> 384]

DefaultRadius ==
    [RadiusNone |-> 0, RadiusSM |-> 2, RadiusBase |-> 4, RadiusMD |-> 6,
     RadiusLG |-> 8, RadiusXL |-> 12, Radius2XL |-> 16, Radius3XL |-> 24,
     RadiusFull |-> 9999]

(* The colours of LightColorScheme the variants below read. *)
LightColorScheme ==
    [Card |-> NRGBA(255, 255, 255, 255),
     Primary |-> NRGBA(9, 9, 11, 255),
     Muted |-> NRGBA(244, 244, 245, 255)]

(* The same colours of DarkColorScheme. *)
DarkColorScheme ==
    [Card |-> NRGBA(9, 9, 11, 255),
     Primary |-> NRGBA(250, 250, 250, 255),
     Muted |-> NRGBA(39, 39, 42, 255)]

(* The font sizes of DefaultTypography. *)
DefaultTypography ==
    [FontSizeXS |-> 12, FontSizeSM |-> 14, FontSizeBase |-> 16,
     FontSizeLG |-> 18, FontSizeXL |-> 20, FontSize2XL |-> 24,
     FontSize3XL |-> 30, FontSize4XL |-> 36]

(* theme.New() *)
NewTheme ==
    [Colors |-> LightColorScheme, DarkColors |-> DarkColorScheme,
     Typography |-> DefaultTypography, Spacing |-> DefaultSpacing,
     Radius |-> DefaultRadius, IsDark |-> FALSE]

(* theme.NewDark() *)
NewDark ==
    [Colors |-> DarkColorScheme, DarkColors |-> LightColorScheme,
     Typography |-> DefaultTypography, Spacing |-> DefaultSpacing,
     Radius |-> DefaultRadius, IsDark |-> TRUE]

(* The text of the maximize button, by code point: U+2610 is the ballot   *)
(* box New gives it, U+2750 the shadowed square shown while maximized.     *)
BallotBox == "U+2610"

ShadowedSquare == "U+2750"

(* titlebar.New(Config{Title, Window, OnClose}) *)
NewTitleBar(title, window, onClose) ==
    [Title |-> title, window |-> window, onClose |-> onClose,
     maximizeText |-> BallotBox, isMaximized |-> FALSE]

(* No title bar is on screen. *)
NoTitleBar ==
    /\ tb = NewTitleBar("", "nil", "nil")
    /\ performed = <<>>

(* The components are given theme.New() and nobody toggles it. *)
LightTheme ==
    /\ th = NewTheme
    /\ toggled = <<>>

(* darken by factor tenths/10; uint8() truncates. *)
darken(c, tenths) ==
    NRGBA((c.R * (10 - tenths)) \div 10, (c.G * (10 - tenths)) \div 10,
          (c.B * (10 - tenths)) \div 10, c.A)

createSolidVariant(bg, colors) ==
    [Background |-> bg, HoverBg |-> darken(bg, 1), ActiveBg |-> darken(bg, 2),
     DisabledBg |-> colors.Muted]

(* VariantDefault *)
GetButtonVariant(colors) == createSolidVariant(colors.Primary, colors)

GetCardVariant(colors) == [Background |-> colors.Card]

-----------------------------------------------------------------------------
(* Button and Card *)

WidgetClasses ==
    {"", "p-0", "bg-transparent", "rounded-none", "px-4",
     "p-4 bg-blue rounded-lg", "bg-red rounded",
     "p-0 bg-transparent rounded-none"}

Sizes == {"SizeDefault", "SizeSM", "SizeLG", "SizeIcon"}

(* button.New(Config{...}) *)
NewButton(size, disabled, cls, onClick) ==
    [clickable |-> "set", Text |-> "Click me", Icon |-> "nil",
     Size |-> size, Disabled |-> disabled, Classes |-> cls, OnClick |-> onClick,
     cachedStyles |-> StyleUtility, cachedClasses |-> "",
     stylesCacheValid |-> FALSE]

(* card.New(Config{...}) and card.NewCard(...) *)
NewCard(cls, padding) == [Classes |-> cls, Padding |-> padding]

(* No token is in the switch. *)
NoSwitch ==
    /\ toFold = <<>>
    /\ at = 1
    /\ tested = 0
    /\ initial = StyleUtility
    /\ folded = StyleUtility

NoFrame == [kind |-> "none"]

(* b.clickable.Clicked(gtx) on a nil clickable: nil pointer dereference. *)
PanicFrame == [kind |-> "panic"]

NoAnswer == [op |-> "none"]

NoWidget ==
    /\ widget = "none"
    /\ button = NewButton("SizeDefault", FALSE, "", "nil")
    /\ card = NewCard("", ZeroInset)
    /\ frame = NoFrame
    /\ answer = NoAnswer

getSizeConfig(size, spacing) ==
    CASE size = "SizeSM" ->
            [Top |-> spacing.Space2, Bottom |-> spacing.Space2,
             Left |-> spacing.Space3, Right |-> spacing.Space3]
      [] size = "SizeLG" ->
            [Top |-> spacing.Space3, Bottom |-> spacing.Space3,
             Left |-> spacing.Space8, Right |-> spacing.Space8]
      [] size = "SizeIcon" ->
            [Top |-> spacing.Space2, Bottom |-> spacing.Space2,
             Left |-> spacing.Space2, Right |-> spacing.Space2]
      [] OTHER ->
            [Top |-> spacing.Space2, Bottom |-> spacing.Space2,
             Left |-> spacing.Space4, Right |-> spacing.Space4]

(* The cached styles are reused: the negation of the re-parse condition. *)
cacheHit_validOnly(bt) == bt.stylesCacheValid

cacheHit(bt) == bt.stylesCacheValid /\ bt.cachedClasses = bt.Classes

(* if styles.Padding != (layout.Inset{}) { padding = styles.Padding } *)
applyPadding_perSide(styles, padding) ==
    [side \in {"Top", "Bottom", "Left", "Right"} |->
        IF styles.Padding[side] # 0 THEN styles.Padding[side] ELSE padding[side]]

applyPadding(styles, padding) ==
    IF styles.Padding # ZeroInset THEN styles.Padding ELSE padding

(* if styles.Background.A > 0 { bgColor = styles.Background } *)
applyBackground(styles, bgColor) ==
    IF styles.Background.A > 0 THEN styles.Background ELSE bgColor

(* if styles.Radius > 0 { radius = styles.Radius } *)
applyRadius_always(styles, radius) == styles.Radius

applyRadius(styles, radius) ==
    IF styles.Radius > 0 THEN styles.Radius ELSE radius

InitWidgets ==
    /\ widget \in {"button", "card"}
    /\ IF widget = "button"
       THEN /\ button \in {NewButton(size, FALSE, cls, onClick) :
                              size \in Sizes, cls \in {"", "px-4"},
                              onClick \in {"nil", "handler"}}
            /\ card = NewCard("", ZeroInset)
       ELSE /\ button = NewButton("SizeDefault", FALSE, "", "nil")
            /\ card \in {NewCard(cls, padding) :
                            cls \in WidgetClasses,
                            padding \in {ZeroInset, UniformInset(24)}}
    /\ frame = NoFrame
    /\ answer = NoAnswer
    /\ classes = <<>>
    /\ classString = ""
    /\ classList = <<>>
    /\ i = 0
    /\ style = StyleUtility
    /\ pc = "start"
    /\ calls = <<>>
    /\ accum = <<>>
    /\ NoSwitch
    /\ LightTheme
    /\ NoTitleBar

(* b.Classes = cls *)
SetClasses(cls) ==
    /\ widget = "button"
    /\ button' = [button EXCEPT !.Classes = cls]
    /\ UNCHANGED <<widget, card, frame, answer, parserVars, callVars, switchVars, themeVars, titleVars>>

(* Button.SetDisabled *)
SetDisabled(disabled) ==
    /\ widget = "button"
    /\ frame # PanicFrame
    /\ button' = [button EXCEPT !.Disabled = disabled]
    /\ UNCHANGED <<widget, card, frame, answer, parserVars, callVars, switchVars, themeVars, titleVars>>

(* if b.clickable.Clicked(gtx) && !b.Disabled && b.OnClick != nil { b.OnClick() } *)
onClickCalls_ignoreDisabled(bt, clicked) ==
    IF clicked /\ bt.OnClick # "nil" THEN 1 ELSE 0

onClickCalls(bt, clicked) ==
    IF clicked /\ ~bt.Disabled /\ bt.OnClick # "nil" THEN 1 ELSE 0

(* The body of Button.Layout(gtx, th): clicked, pressed and hovered are    *)
(* what b.clickable reports in this frame.                                 *)
LayoutBody(clicked, pressed, hovered) ==
    IF button.clickable = "nil"
    THEN /\ frame' = PanicFrame
         /\ UNCHANGED button
    ELSE
      LET variant == GetButtonVariant(th.Colors)
          sizePadding == getSizeConfig(button.Size, th.Spacing)
          hit == cacheHit(button)
          styles == IF ~hit THEN ParseClasses(<<button.Classes>>)
                    ELSE button.cachedStyles
          padding == applyPadding(styles, sizePadding)
          stateBg == CASE button.Disabled -> variant.DisabledBg
                       [] ~button.Disabled /\ pressed -> variant.ActiveBg
                       [] ~button.Disabled /\ ~pressed /\ hovered -> variant.HoverBg
                       [] OTHER -> variant.Background
          bgColor == applyBackground(styles, stateBg)
          radius == applyRadius(styles, th.Radius.RadiusMD)
      IN  /\ button' = IF ~hit
                       THEN [button EXCEPT !.cachedStyles = styles,
                                           !.cachedClasses = button.Classes,
                                           !.stylesCacheValid = TRUE]
                       ELSE button
          /\ frame' = [kind |-> "button", classes |-> button.Classes,
                       styles |-> styles, reparsed |-> ~hit,
                       clicked |-> clicked,
                       onClicks |-> onClickCalls(button, clicked),
                       disabled |-> button.Disabled, pressed |-> pressed,
                       hovered |-> hovered, padding |-> padding,
                       bgColor |-> bgColor, radius |-> radius]

(* Button.Layout(gtx, th) *)
ButtonLayout(clicked, pressed, hovered) ==
    /\ widget = "button"
    /\ frame # PanicFrame
    /\ LayoutBody(clicked, pressed, hovered)
    /\ UNCHANGED <<widget, card, answer, parserVars, callVars, switchVars, themeVars, titleVars>>

(* Card.Layout(gtx, th) *)
CardLayout ==
    /\ widget = "card"
    /\ LET variant == GetCardVariant(th.Colors)
           styles == ParseClasses(<<card.Classes>>)
           ownPadding == IF card.Padding = ZeroInset
                         THEN UniformInset(th.Spacing.Space6)
                         ELSE card.Padding
           padding == applyPadding(styles, ownPadding)
           bgColor == applyBackground(styles, variant.Background)
           radius == applyRadius(styles, th.Radius.RadiusLG)
       IN  frame' = [kind |-> "card", classes |-> card.Classes,
                     styles |-> styles, reparsed |-> TRUE, clicked |-> FALSE,
                     onClicks |-> 0,
                     disabled |-> FALSE, pressed |-> FALSE, hovered |-> FALSE,
                     padding |-> padding, bgColor |-> bgColor, radius |-> radius]
    /\ UNCHANGED <<widget, button, card, answer, parserVars, callVars, switchVars, themeVars, titleVars>>

NextWidgets ==
    \/ \E cls \in WidgetClasses : SetClasses(cls)
    \/ \E disabled \in BOOLEAN : SetDisabled(disabled)
    \/ \E clicked, pressed, hovered \in BOOLEAN : ButtonLayout(clicked, pressed, hovered)
    \/ CardLayout

SpecWidgets == InitWidgets /\ [][NextWidgets]_vars

-----------------------------------------------------------------------------
(* A button that is clicked, queried, validated and laid out *)

(* Buttons as button.New builds them, and struct literals without a       *)
(* clickable or without text and icon.                                    *)
InitButton ==
    /\ widget = "button"
    /\ \E onClick \in {"nil", "handler"}, disabled \in BOOLEAN :
          LET bt == NewButton("SizeDefault", disabled, "px-4", onClick)
          IN  button \in {bt,
                          [bt EXCEPT !.clickable = "nil"],
                          [bt EXCEPT !.Text = ""],
                          [bt EXCEPT !.Text = "", !.Icon = "icon"]}
    /\ card = NewCard("", ZeroInset)
    /\ frame = NoFrame
    /\ answer = NoAnswer
    /\ classes = <<>>
    /\ classString = ""
    /\ classList = <<>>
    /\ i = 0
    /\ style = StyleUtility
    /\ pc = "start"
    /\ calls = <<>>
    /\ accum = <<>>
    /\ NoSwitch
    /\ LightTheme
    /\ NoTitleBar

(* Button.SetText *)
SetText(text) ==
    /\ frame # PanicFrame
    /\ button' = [button EXCEPT !.Text = text]
    /\ UNCHANGED <<widget, card, frame, answer, parserVars, callVars, switchVars, themeVars, titleVars>>

(* Button.SetOnClick *)
SetOnClick(onClick) ==
    /\ frame # PanicFrame
    /\ button' = [button EXCEPT !.OnClick = onClick]
    /\ UNCHANGED <<widget, card, frame, answer, parserVars, callVars, switchVars, themeVars, titleVars>>

(* Button.Clicked: b.clickable.Clicked(gtx) && !b.Disabled *)
Clicked(clicked) ==
    /\ frame # PanicFrame
    /\ IF button.clickable = "nil"
       THEN /\ frame' = PanicFrame
            /\ UNCHANGED answer
       ELSE /\ answer' = [op |-> "Clicked", clicked |-> clicked,
                          disabled |-> button.Disabled,
                          value |-> clicked /\ ~button.Disabled]
            /\ UNCHANGED frame
    /\ UNCHANGED <<widget, button, card, parserVars, callVars, switchVars, themeVars, titleVars>>

(* ValidateButton(b): the error returned, "nil" for none; b is <<>> for a  *)
(* nil *Button.                                                            *)
ValidateButton_contentUnchecked(b) ==
    IF b = <<>> THEN "button cannot be nil"
    ELSE IF b[1].clickable = "nil" THEN "button must have a clickable widget"
    ELSE "nil"

ValidateButton(b) ==
    IF b = <<>> THEN "button cannot be nil"
    ELSE IF b[1].clickable = "nil" THEN "button must have a clickable widget"
    ELSE IF b[1].Text = "" /\ b[1].Icon = "nil"
         THEN "button must have either text or icon"
    ELSE "nil"

(* layout.Dimensions{} *)
ZeroDimensions == [kind |-> "none"]

(* b.SafeLayout(gtx, t): b is <<>> or <<button>>, t is <<>> or <<th>>. *)
SafeLayout(b, t, clicked, pressed, hovered) ==
    /\ frame # PanicFrame
    /\ LET err == IF ValidateButton(b) # "nil" THEN ValidateButton(b)
                  ELSE IF t = <<>> THEN "theme cannot be nil"
                  ELSE "nil"
           call == [op |-> "SafeLayout", b |-> b, t |-> t, err |-> err]
       IN  IF err # "nil"
           THEN /\ answer' = call @@ [dims |-> ZeroDimensions]
                /\ UNCHANGED <<button, frame>>
           ELSE /\ LayoutBody(clicked, pressed, hovered)
                /\ answer' = call @@ [dims |-> frame']
    /\ UNCHANGED <<widget, card, parserVars, callVars, switchVars, themeVars, titleVars>>

NextButton ==
    \/ \E disabled \in BOOLEAN : SetDisabled(disabled)
    \/ \E text \in {"", "Click me"} : SetText(text)
    \/ \E onClick \in {"nil", "handler"} : SetOnClick(onClick)
    \/ \E clicked \in BOOLEAN : Clicked(clicked)
    \/ \E clicked, pressed, hovered \in BOOLEAN :
          ButtonLayout(clicked, pressed, hovered)
    \/ \E b \in {<<>>, <<button>>}, t \in {<<>>, <<th>>},
          clicked, pressed, hovered \in BOOLEAN :
          SafeLayout(b, t, clicked, pressed, hovered)

SpecButton == InitButton /\ [][NextButton]_vars

-----------------------------------------------------------------------------
(* A theme toggled between the frames of a card *)

InitTheme ==
    /\ th \in {NewTheme, NewDark}
    /\ toggled = <<>>
    /\ widget = "card"
    /\ button = NewButton("SizeDefault", FALSE, "", "nil")
    /\ card \in {NewCard(cls, padding) :
                    cls \in WidgetClasses,
                    padding \in {ZeroInset, UniformInset(24)}}
    /\ frame = NoFrame
    /\ answer = NoAnswer
    /\ classes = <<>>
    /\ classString = ""
    /\ classList = <<>>
    /\ i = 0
    /\ style = StyleUtility
    /\ pc = "start"
    /\ calls = <<>>
    /\ accum = <<>>
    /\ NoSwitch
    /\ NoTitleBar

(* Theme.ToggleDark: both branches swap Colors and DarkColors. *)
ToggleDark_lightKeepsColors ==
    /\ th' = IF th.IsDark
             THEN [th EXCEPT !.IsDark = FALSE]
             ELSE [th EXCEPT !.Colors = th.DarkColors,
                             !.DarkColors = th.Colors,
                             !.IsDark = TRUE]
    /\ toggled' = IF Len(toggled) = 2 THEN <<toggled[2], th>>
                  ELSE Append(toggled, th)
    /\ UNCHANGED <<parserVars, callVars, widgetVars, switchVars, titleVars>>

ToggleDark ==
    /\ th' = IF th.IsDark
             THEN [th EXCEPT !.Colors = th.DarkColors,
                             !.DarkColors = th.Colors,
                             !.IsDark = FALSE]
             ELSE [th EXCEPT !.Colors = th.DarkColors,
                             !.DarkColors = th.Colors,
                             !.IsDark = TRUE]
    /\ toggled' = IF Len(toggled) = 2 THEN <<toggled[2], th>>
                  ELSE Append(toggled, th)
    /\ UNCHANGED <<parserVars, callVars, widgetVars, switchVars, titleVars>>

NextTheme == ToggleDark \/ CardLayout

SpecTheme == InitTheme /\ [][NextTheme]_vars

-----------------------------------------------------------------------------
(* The title bar and its window buttons *)

(* What Config.Window may hold: an *app.Window, a value without a Perform *)
(* method, or nothing.                                                     *)
Windows == {"window", "other", "nil"}

(* The type assertion of tb.window to interface{ Perform(system.Action) } *)
SupportsPerform(window) == window = "window"

Titles == {"", "App", "Docs"}

(* The three buttons are button.New(Config{OnClick: ...}): enabled, with  *)
(* a handler.                                                              *)
ControlButton == NewButton("SizeSM", FALSE, "", "handler")

(* tb.minimize(): the window actions performed. *)
minimize(t) ==
    IF SupportsPerform(t.window) THEN <<"ActionMinimize">> ELSE <<>>

(* tb.toggleMaximize(): the title bar after the call and the window       *)
(* actions performed.                                                      *)
toggleMaximize_flipsAnyway(t) ==
    IF SupportsPerform(t.window)
    THEN IF t.isMaximized
         THEN [tb |-> [t EXCEPT !.maximizeText = BallotBox,
                                !.isMaximized = FALSE],
               acts |-> <<"ActionUnmaximize">>]
         ELSE [tb |-> [t EXCEPT !.maximizeText = ShadowedSquare,
                                !.isMaximized = TRUE],
               acts |-> <<"ActionMaximize">>]
    ELSE [tb |-> [t EXCEPT !.isMaximized = ~t.isMaximized], acts |-> <<>>]

toggleMaximize(t) ==
    IF SupportsPerform(t.window)
    THEN IF t.isMaximized
         THEN [tb |-> [t EXCEPT !.maximizeText = BallotBox,
                                !.isMaximized = FALSE],
               acts |-> <<"ActionUnmaximize">>]
         ELSE [tb |-> [t EXCEPT !.maximizeText = ShadowedSquare,
                                !.isMaximized = TRUE],
               acts |-> <<"ActionMaximize">>]
    ELSE [tb |-> t, acts |-> <<>>]

(* The close button's handler: cfg.OnClose() when given, else tb.close(). *)
closeClicked(t) ==
    IF t.onClose # "nil" THEN <<"OnClose">>
    ELSE IF SupportsPerform(t.window) THEN <<"ActionClose">>
    ELSE <<>>

InitTitleBar ==
    /\ tb \in {NewTitleBar(title, window, onClose) :
                  title \in Titles, window \in Windows,
                  onClose \in {"nil", "handler"}}
    /\ performed = <<>>
    /\ classes = <<>>
    /\ classString = ""
    /\ classList = <<>>
    /\ i = 0
    /\ style = StyleUtility
    /\ pc = "start"
    /\ calls = <<>>
    /\ accum = <<>>
    /\ NoWidget
    /\ NoSwitch
    /\ LightTheme

(* TitleBar.SetTitle *)
SetTitle(title) ==
    /\ tb' = [tb EXCEPT !.Title = title]
    /\ UNCHANGED performed
    /\ UNCHANGED <<parserVars, callVars, widgetVars, switchVars, themeVars>>

(* TitleBar.Layout: the minimize, maximize and close buttons are laid out *)
(* in this order and each runs its handler when it registered a click.    *)
TitleBarLayout(clickedMin, clickedMax, clickedClose) ==
    /\ LET fromMin == IF onClickCalls(ControlButton, clickedMin) = 1
                      THEN minimize(tb) ELSE <<>>
           toggle == IF onClickCalls(ControlButton, clickedMax) = 1
                     THEN toggleMaximize(tb) ELSE [tb |-> tb, acts |-> <<>>]
           fromClose == IF onClickCalls(ControlButton, clickedClose) = 1
                        THEN closeClicked(toggle.tb) ELSE <<>>
       IN  /\ tb' = toggle.tb
           /\ performed' = fromMin \o toggle.acts \o fromClose
    /\ UNCHANGED <<parserVars, callVars, widgetVars, switchVars, themeVars>>

NextTitleBar ==
    \/ \E title \in Titles : SetTitle(title)
    \/ \E clickedMin, clickedMax, clickedClose \in BOOLEAN :
          TitleBarLayout(clickedMin, clickedMax, clickedClose)

SpecTitleBar == InitTitleBar /\ [][NextTitleBar]_vars

-----------------------------------------------------------------------------
(* Inputs: the argument lists ParseClasses is called with *)

SeqsUpTo(S, n) == UNION {[1..k -> S] : k \in 0..n}

(* Tokens combined in sequences of up to MaxTokens. *)
CoreTokens ==
    {"p-4", "p-2", "px-2", "py-2", "pt-1", "p-999",
     "bg-red", "bg-blue", "bg-orange",
     "border", "border-gray", "rounded", "rounded-lg", "btn"}

(* Tokens folded last, after up to MaxWide - 1 tokens of CoreTokens. *)
WideTokens ==
    CoreTokens \cup
    {"px-4", "p-7", "p-", "px-", "pt-", "pr-3", "pb-5", "pl-6", "p-0",
     "m-4", "mx-2", "my-1", "m-999", "mt-4",
     "bg-white", "bg-transparent", "bg-",
     "border-", "border-red", "border-xyz",
     "rounded-", "rounded-xyz", "rounded-none", "rounded-sm", "rounded-md",
     "rounded-xl", "rounded-2xl", "rounded-3xl", "rounded-full",
     "opacity-90", "opacity-33", "opacity-", "opacity-0",
     "text-red", "Rounded", "p", "m",
     "p-1", "p-3", "p-5", "p-6", "p-8", "p-10", "p-12", "p-16", "p-20",
     "p-24", "p-32", "p-40", "p-48", "p-56", "p-64",
     "p-9", "p-14", "p-04", "p--4", "m-64", "mx-04", "my-9",
     "mr-4", "mb-4", "ml-4",
     "opacity-5", "opacity-10", "opacity-20", "opacity-25", "opacity-30",
     "opacity-40", "opacity-50", "opacity-60", "opacity-70", "opacity-75",
     "opacity-80", "opacity-95", "opacity-100", "opacity-150", "opacity-05"}

(* Tokens folded before a token of WideTokens. *)
SeedTokens == CoreTokens \cup {"m-4", "my-1", "opacity-50"}

(* Arguments without any token. *)
BlankArgs == {"", " ", "\t \n"}

(* One string holding the tokens separated by single spaces. *)
OneString(toks) == <<Join(toks, " ")>>

(* One string with runs of whitespace around and between the tokens. *)
Padded(toks) == <<" \t" \o Join(toks, "  \n") \o " ">>

(* One argument per token, empty arguments in between. *)
Interleaved(toks) ==
    [k \in 1..(2 * Len(toks)) |-> IF k % 2 = 1 THEN "" ELSE toks[k \div 2]]

DocExamples ==
    { <<"p-4 bg-blue rounded-lg">>,
      <<"p-6 bg-blue rounded">>,
      <<"px-4 py-2 bg-white border border-gray rounded-lg opacity-90">> }

Inputs ==
    {OneString(toks) : toks \in SeqsUpTo(CoreTokens, MaxTokens)}
    \cup {OneString(Append(toks, t)) :
              toks \in SeqsUpTo(SeedTokens, MaxWide - 1), t \in WideTokens}
    \cup SeqsUpTo(CoreTokens \cup BlankArgs, MaxArgs)
    \cup {Padded(toks) : toks \in SeqsUpTo(CoreTokens, MaxArgs)}
    \cup {Interleaved(toks) : toks \in SeqsUpTo(CoreTokens, MaxArgs)}
    \cup DocExamples

-----------------------------------------------------------------------------
(* ParseClasses as a state machine *)

Init ==
    /\ classes \in Inputs
    /\ classString = ""
    /\ classList = <<>>
    /\ i = 0
    /\ style = StyleUtility
    /\ pc = "start"
    /\ calls = <<>>
    /\ accum = <<>>
    /\ NoWidget
    /\ NoSwitch
    /\ LightTheme
    /\ NoTitleBar

(* style := StyleUtility{Opacity: 1.0}; classList := Fields(ClassNames(...)) *)
Tokenize ==
    /\ pc = "start"
    /\ style' = InitialStyle
    /\ classString' = ClassNames(classes)
    /\ classList' = Fields(classString')
    /\ i' = 1
    /\ pc' = "loop"
    /\ UNCHANGED classes
    /\ UNCHANGED <<callVars, widgetVars, switchVars, themeVars, titleVars>>

(* One iteration of the range loop: parseClass(class, &style) *)
ParseClassStep ==
    /\ pc = "loop"
    /\ i <= Len(classList)
    /\ IF slicePanics(classList[i])
       THEN /\ pc' = "panic"
            /\ UNCHANGED <<style, i>>
       ELSE /\ style' = parseClass(classList[i], style)
            /\ i' = i + 1
            /\ pc' = "loop"
    /\ UNCHANGED <<classes, classString, classList>>
    /\ UNCHANGED <<callVars, widgetVars, switchVars, themeVars, titleVars>>

(* return style *)
Return ==
    /\ pc = "loop"
    /\ i > Len(classList)
    /\ pc' = "done"
    /\ UNCHANGED <<classes, classString, classList, i, style>>
    /\ UNCHANGED <<callVars, widgetVars, switchVars, themeVars, titleVars>>

Next == Tokenize \/ ParseClassStep \/ Return

Spec == Init /\ [][Next]_vars

-----------------------------------------------------------------------------
(* Calls of ParseClasses interleaved step by step *)

CallIds == 1..MaxCalls

CallInputs ==
    { <<"p-4", "px-2">>,
      <<"p-4 px-2">>,
      <<" \tp-4  \npx-2 ">>,
      <<"", "p-4", "", "px-2">>,
      <<"bg-red">> }

(* What an earlier call left in the memory a call's accumulator takes. *)
Leftover == ParseClasses(<<"p-2 bg-blue rounded opacity-50">>)

(* The accumulator of call c: style is a local variable of the call. *)
styleOf_shared(c) == 1

styleOf(c) == c

Activation(cs) ==
    [classes |-> cs, classString |-> "", classList |-> <<>>, i |-> 0,
     pc |-> "start", result |-> StyleUtility]

InitCalls ==
    /\ calls \in [CallIds -> {Activation(cs) : cs \in CallInputs}]
    /\ accum \in [CallIds -> {StyleUtility, Leftover}]
    /\ classes = <<>>
    /\ classString = ""
    /\ classList = <<>>
    /\ i = 0
    /\ style = StyleUtility
    /\ pc = "start"
    /\ NoWidget
    /\ NoSwitch
    /\ LightTheme
    /\ NoTitleBar

CallTokenize_keepFields(c) ==
    /\ calls[c].pc = "start"
    /\ accum' = [accum EXCEPT ![styleOf(c)].Opacity = 100]
    /\ calls' = [calls EXCEPT ![c].classString = ClassNames(calls[c].classes),
                              ![c].classList = Fields(ClassNames(calls[c].classes)),
                              ![c].i = 1,
                              ![c].pc = "loop"]
    /\ UNCHANGED <<parserVars, widgetVars, switchVars, themeVars, titleVars>>

CallTokenize(c) ==
    /\ calls[c].pc = "start"
    /\ accum' = [accum EXCEPT ![styleOf(c)] = InitialStyle]
    /\ calls' = [calls EXCEPT ![c].classString = ClassNames(calls[c].classes),
                              ![c].classList = Fields(ClassNames(calls[c].classes)),
                              ![c].i = 1,
                              ![c].pc = "loop"]
    /\ UNCHANGED <<parserVars, widgetVars, switchVars, themeVars, titleVars>>

CallParseClassStep(c) ==
    /\ calls[c].pc = "loop"
    /\ calls[c].i <= Len(calls[c].classList)
    /\ IF slicePanics(calls[c].classList[calls[c].i])
       THEN /\ calls' = [calls EXCEPT ![c].pc = "panic"]
            /\ UNCHANGED accum
       ELSE /\ accum' = [accum EXCEPT ![styleOf(c)] =
                          parseClass(calls[c].classList[calls[c].i], accum[styleOf(c)])]
            /\ calls' = [calls EXCEPT ![c].i = calls[c].i + 1]
    /\ UNCHANGED <<parserVars, widgetVars, switchVars, themeVars, titleVars>>

CallReturn(c) ==
    /\ calls[c].pc = "loop"
    /\ calls[c].i > Len(calls[c].classList)
    /\ calls' = [calls EXCEPT ![c].pc = "done", ![c].result = accum[styleOf(c)]]
    /\ UNCHANGED accum
    /\ UNCHANGED <<parserVars, widgetVars, switchVars, themeVars, titleVars>>

NextCalls ==
    \E c \in CallIds : CallTokenize(c) \/ CallParseClassStep(c) \/ CallReturn(c)

SpecCalls == InitCalls /\ [][NextCalls]_vars

-----------------------------------------------------------------------------
(* The switch of parseClass, one case guard at a time *)

(* Tokens folded one after another: every case of the switch, one token   *)
(* no case takes and one with a suffix outside the spacing table.         *)
FoldTokens ==
    {"p-4", "px-2", "py-1", "pt-3", "pr-3", "pb-5", "pl-6",
     "m-4", "mx-2", "my-1", "rounded-lg", "rounded", "bg-red",
     "border-gray", "border", "opacity-50", "btn", "p-9"}

(* A record no class string produces: parseClass takes any *StyleUtility. *)
ForeignStyle ==
    [Padding |-> [Top |-> 1, Bottom |-> 2, Left |-> 3, Right |-> 5],
     Margin |-> [Top |-> 7, Bottom |-> 0, Left |-> 9, Right |-> 11],
     Background |-> NRGBA(1, 2, 3, 4),
     Border |-> [Color |-> NRGBA(5, 6, 7, 8), Width |-> 3],
     Radius |-> 5,
     Opacity |-> 37]

FoldRecords == {InitialStyle, Leftover, ForeignStyle}

FoldInputs ==
    (SeqsUpTo(FoldTokens, MaxFold) \ {<<>>}) \cup {<<t>> : t \in WideTokens}

InitSwitch ==
    /\ toFold \in FoldInputs
    /\ at = 1
    /\ tested = 0
    /\ initial \in FoldRecords
    /\ folded = initial
    /\ classes = <<>>
    /\ classString = ""
    /\ classList = <<>>
    /\ i = 0
    /\ style = StyleUtility
    /\ pc = "start"
    /\ calls = <<>>
    /\ accum = <<>>
    /\ NoWidget
    /\ LightTheme
    /\ NoTitleBar

(* The next case guard is evaluated on the token; when it holds the body   *)
(* of the case runs and the switch is left (at = 0 after class[cut:] with  *)
(* cut beyond the token: the call panics).                                 *)
CaseTest_widthAdds ==
    /\ at \in 1..Len(toFold)
    /\ tested < Len(Cases)
    /\ LET k == tested + 1
           class == toFold[at]
       IN  IF caseHolds(Cases[k], class)
           THEN IF Cases[k].kind = "prefix" /\ Cases[k].cut > Len(class)
                THEN /\ at' = 0
                     /\ UNCHANGED <<tested, folded>>
                ELSE /\ folded' =
                          IF k = 15
                          THEN [folded EXCEPT !.Border.Width = @ + 1]
                          ELSE caseBody(k, class, folded)
                     /\ at' = at + 1
                     /\ tested' = 0
           ELSE /\ tested' = k
                /\ UNCHANGED <<at, folded>>
    /\ UNCHANGED <<toFold, initial>>
    /\ UNCHANGED <<parserVars, callVars, widgetVars, themeVars, titleVars>>

CaseTest ==
    /\ at \in 1..Len(toFold)
    /\ tested < Len(Cases)
    /\ LET k == tested + 1
           class == toFold[at]
       IN  IF caseHolds(Cases[k], class)
           THEN IF Cases[k].kind = "prefix" /\ Cases[k].cut > Len(class)
                THEN /\ at' = 0
                     /\ UNCHANGED <<tested, folded>>
                ELSE /\ folded' = caseBody(k, class, folded)
                     /\ at' = at + 1
                     /\ tested' = 0
           ELSE /\ tested' = k
                /\ UNCHANGED <<at, folded>>
    /\ UNCHANGED <<toFold, initial>>
    /\ UNCHANGED <<parserVars, callVars, widgetVars, themeVars, titleVars>>

(* No guard held: the switch has no default, the token is skipped. *)
NoCase ==
    /\ at \in 1..Len(toFold)
    /\ tested = Len(Cases)
    /\ at' = at + 1
    /\ tested' = 0
    /\ UNCHANGED <<toFold, initial, folded>>
    /\ UNCHANGED <<parserVars, callVars, widgetVars, themeVars, titleVars>>

NextSwitch == CaseTest \/ NoCase

SpecSwitch == InitSwitch /\ [][NextSwitch]_vars

-----------------------------------------------------------------------------
(* Properties *)

InsetType == [Top : Nat, Bottom : Nat, Left : Nat, Right : Nat]

ColorType == [R : 0..255, G : 0..255, B : 0..255, A : 0..255]

StyleType ==
    [Padding : InsetType, Margin : InsetType, Background : ColorType,
     Border : [Color : ColorType, Width : Nat], Radius : Nat,
     Width : Nat, Height : Nat, Opacity : 0..100]

Stepping == pc = "loop" /\ i <= Len(classList)

Last(S) == CHOOSE k \in S : \A j \in S : j <= k

MalformedTokens == {"p-", "px-", "rounded-", "border-", "opacity-"}

(* C1: ParseClasses is total: whatever the arguments (none, empty,        *)
(* whitespace only, unrecognized or malformed tokens such as "p-" or      *)
(* "rounded-"), no token makes parseClass panic (no slice out of range)   *)
(* and the value returned is a well-formed StyleUtility record.           *)
C1_Total ==
    /\ pc # "panic"
    /\ pc = "loop" => i \in 1..(Len(classList) + 1)
    /\ pc = "done" => style \in StyleType

C1_Witness ==
    /\ pc = "done"
    /\ Len(classList) = 2
    /\ classList[1] = "btn"
    /\ classList[2] \in MalformedTokens

AllBlank(cs) ==
    \A k \in DOMAIN cs :
        \A j \in 1..Len(cs[k]) : SubSeq(cs[k], j, j) \in {" ", "\t", "\n"}

(* C2: called with no tokens (no arguments, only empty strings or only    *)
(* whitespace), ParseClasses returns Opacity = 1.0 and every other field  *)
(* at its zero value.                                                     *)
C2_Default ==
    (pc = "done" /\ AllBlank(classes)) =>
        style = [Padding |-> [Top |-> 0, Bottom |-> 0, Left |-> 0, Right |-> 0],
                 Margin |-> [Top |-> 0, Bottom |-> 0, Left |-> 0, Right |-> 0],
                 Background |-> [R |-> 0, G |-> 0, B |-> 0, A |-> 0],
                 Border |-> [Color |-> [R |-> 0, G |-> 0, B |-> 0, A |-> 0],
                             Width |-> 0],
                 Radius |-> 0, Width |-> 0, Height |-> 0, Opacity |-> 100]

C2_Witness ==
    /\ pc = "done"
    /\ classes = <<"", "\t \n">>
    /\ style.Opacity = 100

KnownPrefixes ==
    {"p-", "px-", "py-", "pt-", "pr-", "pb-", "pl-", "m-", "mx-", "my-",
     "rounded-", "bg-", "border-", "opacity-"}

Unrecognized(t) ==
    /\ \A p \in KnownPrefixes : ~HasPrefix(t, p)
    /\ t \notin {"rounded", "border"}

(* C3: folding a token that matches no recognized prefix and no bare      *)
(* keyword ("btn", "mt-4", "text-red", "Rounded") into any record leaves  *)
(* the record unchanged, and the loop goes on.                            *)
C3_UnrecognizedNoOp ==
    [][(Stepping /\ Unrecognized(classList[i]))
          => (style' = style /\ pc' = "loop" /\ i' = i + 1)]_vars

C3_Witness ==
    /\ pc = "loop"
    /\ i = 3
    /\ classList[2] \in {"btn", "mt-4", "text-red", "Rounded"}
    /\ style # InitialStyle

SpacingPrefixes ==
    {"p-", "px-", "py-", "pt-", "pr-", "pb-", "pl-", "m-", "mx-", "my-"}

(* The keys of the lookup table that goes with a prefix. *)
TableKeys(p) ==
    IF p \in SpacingPrefixes THEN DOMAIN spacingMap
    ELSE IF p = "rounded-" THEN DOMAIN radiusMap
    ELSE IF p \in {"bg-", "border-"} THEN DOMAIN colorMap
    ELSE DOMAIN opacityMap

UnknownSuffix(t) ==
    \E p \in KnownPrefixes :
        HasPrefix(t, p) /\ Slice(t, Len(p)) \notin TableKeys(p)

(* C4: a token with a known prefix and a suffix absent from the prefix's  *)
(* lookup table ("p-999", "p-7", "bg-orange", "rounded-xyz",              *)
(* "opacity-33", "border-") leaves the whole record unchanged; "p-4       *)
(* p-999" yields uniform padding 16.                                      *)
C4_UnknownSuffixNoOp ==
    /\ [][(Stepping /\ UnknownSuffix(classList[i]))
             => (style' = style /\ pc' = "loop" /\ i' = i + 1)]_vars
    /\ []((pc = "done" /\ classList = <<"p-4", "p-999">>)
             => style.Padding = [Top |-> 16, Bottom |-> 16,
                                 Left |-> 16, Right |-> 16])

C4_Witness ==
    /\ pc = "done"
    /\ classList = <<"p-4", "p-999">>
    /\ style.Padding.Top = 16

ValidBg(t) == HasPrefix(t, "bg-") /\ Slice(t, 3) \in DOMAIN colorMap

LastBackground(toks) ==
    LET S == {k \in DOMAIN toks : ValidBg(toks[k])}
    IN  IF S = {} THEN [R |-> 0, G |-> 0, B |-> 0, A |-> 0]
        ELSE colorMap[Slice(toks[Last(S)], 3)]

(* C5: the Background returned is the palette colour of the last token    *)
(* bg-<name> with <name> in the colour table, the zero colour when there  *)
(* is none; "bg-red bg-blue" yields blue.                                 *)
C5_LastBackgroundWins ==
    pc = "done" =>
        /\ style.Background = LastBackground(classList)
        /\ classList = <<"bg-red", "bg-blue">>
              => style.Background = [R |-> 59, G |-> 130, B |-> 246, A |-> 255]

C5_Witness ==
    /\ pc = "done"
    /\ classList = <<"bg-blue", "bg-red", "bg-blue">>
    /\ style.Background = [R |-> 59, G |-> 130, B |-> 246, A |-> 255]

Sides == {"Top", "Right", "Bottom", "Left"}

(* The padding sides a prefix covers. *)
PaddingSides(p) ==
    CASE p = "p-" -> Sides
      [] p = "px-" -> {"Left", "Right"}
      [] p = "py-" -> {"Top", "Bottom"}
      [] p = "pt-" -> {"Top"}
      [] p = "pr-" -> {"Right"}
      [] p = "pb-" -> {"Bottom"}
      [] p = "pl-" -> {"Left"}

PaddingPrefixes == {"p-", "px-", "py-", "pt-", "pr-", "pb-", "pl-"}

(* The padding prefixes under which t is a recognized token covering side. *)
Covering(t, side) ==
    {p \in PaddingPrefixes :
        /\ HasPrefix(t, p)
        /\ Slice(t, Len(p)) \in DOMAIN spacingMap
        /\ side \in PaddingSides(p)}

LastPadding(toks, side) ==
    LET S == {k \in DOMAIN toks : Covering(toks[k], side) # {}}
    IN  IF S = {} THEN 0
        ELSE LET t == toks[Last(S)]
                 p == CHOOSE q \in Covering(t, side) : TRUE
             IN  spacingMap[Slice(t, Len(p))]

(* C6: each padding side returned is the spacing value of the last        *)
(* recognized padding token covering that side, 0 when there is none;     *)
(* "p-4 p-2" is uniform 8, "p-4 px-2" is left/right 8 and top/bottom 16,  *)
(* "px-2 p-4" is uniform 16.                                              *)
C6_LastPaddingWins ==
    pc = "done" =>
        /\ \A side \in Sides : style.Padding[side] = LastPadding(classList, side)
        /\ classList = <<"p-4", "p-2">>
              => style.Padding = [Top |-> 8, Bottom |-> 8, Left |-> 8, Right |-> 8]
        /\ classList = <<"p-4", "px-2">>
              => style.Padding = [Top |-> 16, Bottom |-> 16, Left |-> 8, Right |-> 8]
        /\ classList = <<"px-2", "p-4">>
              => style.Padding = [Top |-> 16, Bottom |-> 16, Left |-> 16, Right |-> 16]

C6_Witness ==
    /\ pc = "done"
    /\ classList = <<"p-4", "px-2">>
    /\ style.Padding = [Top |-> 16, Bottom |-> 16, Left |-> 8, Right |-> 8]

ValidSpacing(t, p) == HasPrefix(t, p) /\ Slice(t, Len(p)) \in DOMAIN spacingMap

SpacingOf(t, p) == spacingMap[Slice(t, Len(p))]

(* C7: a token px-<n> with <n> in the spacing scale sets left and right   *)
(* padding and leaves top and bottom (and every other field) as they      *)
(* were; p-<n> sets all four sides; py-, pt-, pr-, pb-, pl- write their   *)
(* own sides only, never all four as p- does; "px-4" alone gives left =   *)
(* right = 16, top = bottom = 0 and "p-4" alone gives 16 on every side.   *)
C7_PrefixDisambiguation ==
    /\ [][Stepping =>
            LET t == classList[i]
            IN  /\ ValidSpacing(t, "px-") =>
                      style' = [style EXCEPT !.Padding.Left = SpacingOf(t, "px-"),
                                             !.Padding.Right = SpacingOf(t, "px-")]
                /\ ValidSpacing(t, "p-") =>
                      style' = [style EXCEPT !.Padding =
                                   [Top |-> SpacingOf(t, "p-"),
                                    Bottom |-> SpacingOf(t, "p-"),
                                    Left |-> SpacingOf(t, "p-"),
                                    Right |-> SpacingOf(t, "p-")]]
                /\ \A p \in PaddingPrefixes \ {"p-"} :
                      ValidSpacing(t, p) =>
                          /\ \A side \in PaddingSides(p) :
                                style'.Padding[side] = SpacingOf(t, p)
                          /\ \A side \in Sides \ PaddingSides(p) :
                                style'.Padding[side] = style.Padding[side]
         ]_vars
    /\ []((pc = "done" /\ classList = <<"px-4">>)
             => style.Padding = [Top |-> 0, Bottom |-> 0, Left |-> 16, Right |-> 16])
    /\ []((pc = "done" /\ classList = <<"p-4">>)
             => style.Padding = [Top |-> 16, Bottom |-> 16, Left |-> 16, Right |-> 16])

C7_Witness ==
    /\ pc = "done"
    /\ classList = <<"px-4">>
    /\ style.Padding = [Top |-> 0, Bottom |-> 0, Left |-> 16, Right |-> 16]

RadiusScale ==
    [k \in {"none", "", "sm", "md", "lg", "xl", "2xl", "3xl", "full"} |->
        CASE k = "none" -> 0
          [] k = "" -> 4
          [] k = "sm" -> 2
          [] k = "md" -> 6
          [] k = "lg" -> 8
          [] k = "xl" -> 12
          [] k = "2xl" -> 16
          [] k = "3xl" -> 24
          [] k = "full" -> 9999]

(* C8: the token "rounded" sets Radius to 4; "rounded-<key>" sets Radius  *)
(* to the radius-scale value of <key> (none 0, empty 4, sm 2, md 6, lg 8, *)
(* xl 12, 2xl 16, 3xl 24, full 9999); with a key outside the scale it     *)
(* leaves Radius unchanged, 0 when no radius token came before.           *)
C8_BareAndNamedRadius ==
    /\ [][Stepping =>
            LET t == classList[i]
                key == Slice(t, 8)
            IN  /\ t = "rounded" => style' = [style EXCEPT !.Radius = 4]
                /\ (HasPrefix(t, "rounded-") /\ key \in DOMAIN RadiusScale)
                      => style' = [style EXCEPT !.Radius = RadiusScale[key]]
                /\ (HasPrefix(t, "rounded-") /\ key \notin DOMAIN RadiusScale)
                      => style' = style
         ]_vars
    /\ []((pc = "done" /\ classList = <<"rounded">>) => style.Radius = 4)
    /\ []((pc = "done" /\ classList = <<"rounded-lg">>) => style.Radius = 8)
    /\ []((pc = "done" /\ classList = <<"rounded-xyz">>) => style.Radius = 0)

C8_Witness ==
    /\ pc = "done"
    /\ classList = <<"rounded-lg", "rounded-xyz">>
    /\ style.Radius = 8

(* C9: the exact token "border" sets Border.Width to 1 and nothing else;  *)
(* "border-<name>" with <name> in the colour table sets Border.Color and  *)
(* nothing else, so "border-gray" alone yields width 0 with the gray      *)
(* colour.                                                                *)
C9_BareAndNamedBorder ==
    /\ [][Stepping =>
            LET t == classList[i]
                name == Slice(t, 7)
            IN  /\ t = "border" => style' = [style EXCEPT !.Border.Width = 1]
                /\ (HasPrefix(t, "border-") /\ name \in DOMAIN colorMap)
                      => style' = [style EXCEPT !.Border.Color = colorMap[name]]
         ]_vars
    /\ []((pc = "done" /\ classList = <<"border-gray">>)
             => style.Border = [Color |-> [R |-> 156, G |-> 163, B |-> 175, A |-> 255],
                                Width |-> 0])

C9_Witness ==
    /\ pc = "done"
    /\ classList = <<"border-gray">>
    /\ style.Border.Width = 0
    /\ style.Border.Color.A = 255

ComplexStyling ==
    <<"px-4 py-2 bg-white border border-gray rounded-lg opacity-90">>

(* C10: ParseClasses("px-4 py-2 bg-white border border-gray rounded-lg    *)
(* opacity-90") yields padding left = right = 16 and top = bottom = 8,    *)
(* background RGBA(255,255,255,255), border colour RGBA(156,163,175,255)  *)
(* with width 1, radius 8, opacity 0.9, and margin unset.                 *)
C10_ComplexStyling ==
    (pc = "done" /\ classes = ComplexStyling) =>
        /\ style.Padding = [Top |-> 8, Bottom |-> 8, Left |-> 16, Right |-> 16]
        /\ style.Background = [R |-> 255, G |-> 255, B |-> 255, A |-> 255]
        /\ style.Border = [Color |-> [R |-> 156, G |-> 163, B |-> 175, A |-> 255],
                           Width |-> 1]
        /\ style.Radius = 8
        /\ style.Opacity = 90
        /\ style.Margin = [Top |-> 0, Bottom |-> 0, Left |-> 0, Right |-> 0]

C10_Witness ==
    /\ pc = "done"
    /\ classes = ComplexStyling
    /\ Len(classList) = 7
    /\ style.Opacity = 90

Digit(c) ==
    CASE c = "0" -> 0 [] c = "1" -> 1 [] c = "2" -> 2 [] c = "3" -> 3
      [] c = "4" -> 4 [] c = "5" -> 5 [] c = "6" -> 6 [] c = "7" -> 7
      [] c = "8" -> 8 [] c = "9" -> 9

(* The number a string of decimal digits denotes. *)
RECURSIVE Decimal(_)
Decimal(s) ==
    IF Len(s) = 0 THEN 0
    ELSE 10 * Decimal(SubSeq(s, 1, Len(s) - 1)) + Digit(SubSeq(s, Len(s), Len(s)))

ScaleKeys ==
    {"0", "1", "2", "3", "4", "5", "6", "8", "10", "12", "16", "20", "24",
     "32", "40", "48", "56", "64"}

(* The field and the sides a spacing prefix writes. *)
SpacingField(p) == IF p \in {"m-", "mx-", "my-"} THEN "Margin" ELSE "Padding"

SpacingSides(p) ==
    CASE p \in {"p-", "m-"} -> Sides
      [] p \in {"px-", "mx-"} -> {"Left", "Right"}
      [] p \in {"py-", "my-"} -> {"Top", "Bottom"}
      [] p = "pt-" -> {"Top"}
      [] p = "pr-" -> {"Right"}
      [] p = "pb-" -> {"Bottom"}
      [] p = "pl-" -> {"Left"}

(* C11: a spacing suffix is recognized iff it is one of the 18 keys 0, 1, *)
(* 2, 3, 4, 5, 6, 8, 10, 12, 16, 20, 24, 32, 40, 48, 56, 64, and key k    *)
(* stands for 4*k units; with any other suffix ("7", "9", "14", "04",     *)
(* "-4", "") the token is ignored.                                        *)
C11_SpacingScale ==
    [][Stepping =>
         LET t == classList[i]
         IN  \A p \in SpacingPrefixes :
                 HasPrefix(t, p) =>
                     LET k == Slice(t, Len(p))
                     IN  IF k \in ScaleKeys
                         THEN \A side \in SpacingSides(p) :
                                 style'[SpacingField(p)][side] = 4 * Decimal(k)
                         ELSE style' = style
      ]_vars

C11_Witness ==
    /\ pc = "done"
    /\ classList = <<"p-999", "p-64">>
    /\ style.Padding = [Top |-> 256, Bottom |-> 256, Left |-> 256, Right |-> 256]

OpacityKeys ==
    {"0", "5", "10", "20", "25", "30", "40", "50", "60", "70", "75", "80",
     "90", "95", "100"}

ValidOpacity(t) == HasPrefix(t, "opacity-") /\ Slice(t, 8) \in OpacityKeys

LastOpacity(toks) ==
    LET S == {k \in DOMAIN toks : ValidOpacity(toks[k])}
    IN  IF S = {} THEN 100 ELSE Decimal(Slice(toks[Last(S)], 8))

(* C12: the Opacity returned lies in [0.0, 1.0]; it is 1.0 without a      *)
(* recognized opacity token and otherwise n/100 for the last token        *)
(* opacity-<n> with n one of 0, 5, 10, 20, 25, 30, 40, 50, 60, 70, 75,    *)
(* 80, 90, 95, 100.                                                       *)
C12_OpacityRange ==
    pc = "done" =>
        /\ style.Opacity >= 0
        /\ style.Opacity <= 100
        /\ style.Opacity = LastOpacity(classList)

C12_Witness ==
    /\ pc = "done"
    /\ classList = <<"opacity-50", "opacity-150">>
    /\ style.Opacity = 50

(* C13: all four sides of Padding and of Margin, the Radius and the       *)
(* Border.Width of the record returned are non-negative.                  *)
C13_NonNegative ==
    pc = "done" =>
        /\ \A side \in Sides : style.Padding[side] >= 0 /\ style.Margin[side] >= 0
        /\ style.Radius >= 0
        /\ style.Border.Width >= 0

C13_Witness ==
    /\ pc = "done"
    /\ classList = <<"m-4", "p--4">>
    /\ style.Margin.Top = 16
    /\ style.Padding.Top = 0

(* C17: m-<n> sets all four margin sides, mx-<n> left and right, my-<n>   *)
(* top and bottom, to the spacing value of <n>; a margin token leaves     *)
(* Padding alone and a padding token leaves Margin alone; mt-, mr-, mb-,  *)
(* ml- are not recognized and change nothing.                             *)
C17_MarginTokens ==
    [][Stepping =>
         LET t == classList[i]
         IN  /\ ValidSpacing(t, "m-") =>
                   style' = [style EXCEPT !.Margin =
                                [Top |-> SpacingOf(t, "m-"),
                                 Bottom |-> SpacingOf(t, "m-"),
                                 Left |-> SpacingOf(t, "m-"),
                                 Right |-> SpacingOf(t, "m-")]]
             /\ ValidSpacing(t, "mx-") =>
                   style' = [style EXCEPT !.Margin.Left = SpacingOf(t, "mx-"),
                                          !.Margin.Right = SpacingOf(t, "mx-")]
             /\ ValidSpacing(t, "my-") =>
                   style' = [style EXCEPT !.Margin.Top = SpacingOf(t, "my-"),
                                          !.Margin.Bottom = SpacingOf(t, "my-")]
             /\ (\E p \in {"m-", "mx-", "my-"} : HasPrefix(t, p))
                   => style'.Padding = style.Padding
             /\ (\E p \in PaddingPrefixes : HasPrefix(t, p))
                   => style'.Margin = style.Margin
             /\ (\E p \in {"mt-", "mr-", "mb-", "ml-"} : HasPrefix(t, p))
                   => style' = style
      ]_vars

C17_Witness ==
    /\ pc = "done"
    /\ classList = <<"p-4", "mx-2">>
    /\ style.Margin = [Top |-> 0, Bottom |-> 0, Left |-> 8, Right |-> 8]
    /\ style.Padding = [Top |-> 16, Bottom |-> 16, Left |-> 16, Right |-> 16]

Kept(cs) == {k \in DOMAIN cs : cs[k] # ""}

(* The length of what is joined before argument k. *)
RECURSIVE Offset(_, _)
Offset(cs, k) ==
    IF k = 1 THEN 0
    ELSE Offset(cs, k - 1) + (IF cs[k - 1] # "" THEN Len(cs[k - 1]) + 1 ELSE 0)

(* C15: ClassNames returns its non-empty arguments, in their order,       *)
(* joined by exactly one space; empty arguments are dropped, and the      *)
(* result is "" when every argument is empty or there is none.            *)
C15_ClassNames ==
    pc # "start" =>
        IF Kept(classes) = {} THEN classString = ""
        ELSE LET last == Last(Kept(classes))
             IN  /\ Len(classString) = Offset(classes, last) + Len(classes[last])
                 /\ \A k \in Kept(classes) :
                       LET from == Offset(classes, k)
                           to == from + Len(classes[k])
                       IN  /\ SubSeq(classString, from + 1, to) = classes[k]
                           /\ k # last => SubSeq(classString, to + 1, to + 1) = " "

C15_Witness ==
    /\ pc = "loop"
    /\ classes = <<"", "p-4", "", "bg-red">>
    /\ classString = "p-4 bg-red"

Returned(c) == calls[c].pc = "done"

(* C14: ParseClasses is a function of its arguments: two calls with the   *)
(* same argument list return identical records, whatever other calls ran  *)
(* before or between them and whatever they left behind.                  *)
C14_Deterministic ==
    \A c, d \in CallIds :
        (Returned(c) /\ Returned(d) /\ calls[c].classes = calls[d].classes)
            => calls[c].result = calls[d].result

C14_Witness ==
    /\ Returned(1)
    /\ Returned(2)
    /\ calls[1].classes = <<"p-4 px-2">>
    /\ calls[2].classes = <<"p-4 px-2">>
    /\ calls[1].result.Padding = [Top |-> 16, Bottom |-> 16, Left |-> 8, Right |-> 8]
    /\ calls[1].result.Background.A = 0

(* The arguments written one after the other with a space in between. *)
RECURSIVE SpaceJoined(_)
SpaceJoined(args) ==
    IF Len(args) = 0 THEN ""
    ELSE IF Len(args) = 1 THEN args[1]
    ELSE SpaceJoined(SubSeq(args, 1, Len(args) - 1)) \o " " \o args[Len(args)]

Blank(s, k) == SubSeq(s, k, k) \in {" ", "\t", "\n"}

(* The maximal runs of non-blank characters of s, as <<first, last>>. *)
Runs(s) ==
    {r \in (1..Len(s)) \X (1..Len(s)) :
        /\ r[1] <= r[2]
        /\ \A k \in r[1]..r[2] : ~Blank(s, k)
        /\ r[1] = 1 \/ Blank(s, r[1] - 1)
        /\ r[2] = Len(s) \/ Blank(s, r[2] + 1)}

(* The whitespace-separated tokens of s from left to right. *)
TokenSeq(s) ==
    [k \in 1..Cardinality(Runs(s)) |->
        LET r == CHOOSE q \in Runs(s) :
                    Cardinality({o \in Runs(s) : o[1] < q[1]}) = k - 1
        IN  SubSeq(s, r[1], r[2])]

(* C16: ParseClasses(a1, ..., an) returns what ParseClasses returns for   *)
(* the single string a1 .. an joined with spaces, and two argument lists  *)
(* with the same left-to-right sequence of whitespace-separated tokens    *)
(* return the same record.                                                *)
C16_SplittingIrrelevant ==
    \A c, d \in CallIds :
        (Returned(c) /\ Returned(d)) =>
            /\ calls[d].classes = <<SpaceJoined(calls[c].classes)>>
                  => calls[c].result = calls[d].result
            /\ TokenSeq(SpaceJoined(calls[c].classes))
                 = TokenSeq(SpaceJoined(calls[d].classes))
                  => calls[c].result = calls[d].result

C16_Witness ==
    /\ Returned(1)
    /\ Returned(2)
    /\ calls[1].classes = <<"", "p-4", "", "px-2">>
    /\ calls[2].classes = <<" \tp-4  \npx-2 ">>
    /\ calls[1].result = calls[2].result
    /\ calls[1].result.Padding.Left = 8

(* C18: calls of ParseClasses running concurrently, interleaved in any    *)
(* order, each return the record the same call returns run alone; a call  *)
(* writes no accumulator but its own.                                     *)
C18_ConcurrentSafe ==
    /\ \A c \in CallIds :
          Returned(c) => calls[c].result = ParseClasses(calls[c].classes)
    /\ \A c \in CallIds : calls[c].pc # "panic"

C18_Witness ==
    /\ Returned(1)
    /\ calls[2].pc = "loop"
    /\ calls[2].i = 2
    /\ calls[1].classes = <<"p-4 px-2">>
    /\ calls[2].classes = <<"bg-red">>
    /\ accum[2].Background.A = 255
    /\ calls[1].result.Background.A = 0

(* The padding, background and radius in effect without any class. *)
SizePadding ==
    CASE button.Size = "SizeSM" -> [Top |-> 8, Bottom |-> 8, Left |-> 12, Right |-> 12]
      [] button.Size = "SizeLG" -> [Top |-> 12, Bottom |-> 12, Left |-> 32, Right |-> 32]
      [] button.Size = "SizeIcon" -> [Top |-> 8, Bottom |-> 8, Left |-> 8, Right |-> 8]
      [] OTHER -> [Top |-> 8, Bottom |-> 8, Left |-> 16, Right |-> 16]

DefaultPadding ==
    IF frame.kind = "button" THEN SizePadding
    ELSE IF card.Padding = [Top |-> 0, Bottom |-> 0, Left |-> 0, Right |-> 0]
         THEN [Top |-> 24, Bottom |-> 24, Left |-> 24, Right |-> 24]
         ELSE card.Padding

DefaultBackground ==
    IF frame.kind = "card" THEN [R |-> 255, G |-> 255, B |-> 255, A |-> 255]
    ELSE IF frame.disabled THEN [R |-> 244, G |-> 244, B |-> 245, A |-> 255]
    ELSE IF frame.pressed THEN [R |-> 7, G |-> 7, B |-> 8, A |-> 255]
    ELSE IF frame.hovered THEN [R |-> 8, G |-> 8, B |-> 9, A |-> 255]
    ELSE [R |-> 9, G |-> 9, B |-> 11, A |-> 255]

DefaultFrameRadius == IF frame.kind = "button" THEN 6 ELSE 8

SentinelClasses ==
    {"p-0", "bg-transparent", "rounded-none", "p-0 bg-transparent rounded-none"}

(* C19: Button.Layout and Card.Layout use styles.Padding only when it is  *)
(* not the all-zero inset, styles.Background only when its alpha is > 0   *)
(* and styles.Radius only when it is > 0; otherwise the size, variant or  *)
(* theme default stays, so "p-0", "bg-transparent" and "rounded-none"     *)
(* never override a default.                                              *)
C19_SentinelOverrides ==
    frame.kind # "none" =>
        /\ frame.padding =
              IF frame.styles.Padding # [Top |-> 0, Bottom |-> 0, Left |-> 0, Right |-> 0]
              THEN frame.styles.Padding ELSE DefaultPadding
        /\ frame.bgColor =
              IF frame.styles.Background.A > 0
              THEN frame.styles.Background ELSE DefaultBackground
        /\ frame.radius =
              IF frame.styles.Radius > 0 THEN frame.styles.Radius
              ELSE DefaultFrameRadius
        /\ frame.classes \in SentinelClasses =>
              /\ frame.padding = DefaultPadding
              /\ frame.bgColor = DefaultBackground
              /\ frame.radius = DefaultFrameRadius

C19_Witness ==
    /\ frame.kind = "button"
    /\ frame.classes = "p-0 bg-transparent rounded-none"
    /\ button.Size = "SizeLG"
    /\ frame.padding = [Top |-> 12, Bottom |-> 12, Left |-> 32, Right |-> 32]
    /\ frame.radius = 6

(* C20: the styles a Button.Layout call uses are ParseClasses(Classes)    *)
(* for the Classes at that call, whatever assignments to Classes and      *)
(* Layout calls came before; a valid cache holds ParseClasses of          *)
(* cachedClasses; Layout re-parses exactly when the cache is not valid or *)
(* Classes differs from cachedClasses.                                    *)
C20_CacheCoherent ==
    /\ [](frame.kind = "button" =>
             /\ frame.styles = ParseClasses(<<frame.classes>>)
             /\ button.stylesCacheValid
             /\ button.cachedClasses = frame.classes
             /\ button.cachedStyles = frame.styles)
    /\ [](button.stylesCacheValid =>
             button.cachedStyles = ParseClasses(<<button.cachedClasses>>))
    /\ [][(widget = "button" /\ frame' # frame) =>
             frame'.reparsed = (~button.stylesCacheValid
                                  \/ button.cachedClasses # button.Classes)]_vars

C20_Witness ==
    /\ frame.kind = "button"
    /\ ~frame.reparsed
    /\ frame.classes = "p-4 bg-blue rounded-lg"
    /\ frame.styles.Radius = 8
    /\ button.Classes = "px-4"

(* The DefaultRadius field a radius key of the parser stands for. *)
RadiusField(key) ==
    CASE key = "none" -> "RadiusNone"
      [] key = "sm" -> "RadiusSM"
      [] key = "" -> "RadiusBase"
      [] key = "md" -> "RadiusMD"
      [] key = "lg" -> "RadiusLG"
      [] key = "xl" -> "RadiusXL"
      [] key = "2xl" -> "Radius2XL"
      [] key = "3xl" -> "Radius3XL"
      [] key = "full" -> "RadiusFull"

RadiusKeys == {"none", "sm", "", "md", "lg", "xl", "2xl", "3xl", "full"}

(* A case of the switch held on the token and its body ran. *)
CaseRan == at \in 1..Len(toFold) /\ at' = at + 1 /\ tested < Len(Cases)

(* C21: the parser's scales agree with the theme's: for every key k of    *)
(* the parser's spacing scale parseSpacing(k) is DefaultSpacing().Space<k> *)
(* and for every radius key (none, sm, empty, md, lg, xl, 2xl, 3xl, full)  *)
(* parseRadius gives the matching DefaultRadius() field, so a "p-<k>" or   *)
(* "rounded-<key>" token writes the theme's value.                         *)
C21_ScalesAgree ==
    /\ [](\A k \in ScaleKeys :
             parseSpacing(k) = <<DefaultSpacing["Space" \o k]>>)
    /\ [](\A key \in RadiusKeys :
             parseRadius(key) = <<DefaultRadius[RadiusField(key)]>>)
    /\ [][CaseRan =>
            LET class == toFold[at]
            IN  /\ (HasPrefix(class, "p-") /\ Slice(class, 2) \in ScaleKeys)
                      => folded'.Padding =
                            UniformInset(DefaultSpacing["Space" \o Slice(class, 2)])
                /\ (HasPrefix(class, "rounded-") /\ Slice(class, 8) \in RadiusKeys)
                      => folded'.Radius =
                            DefaultRadius[RadiusField(Slice(class, 8))]
         ]_vars

C21_Witness ==
    /\ toFold = <<"rounded-xl">>
    /\ at = 2
    /\ initial = ForeignStyle
    /\ folded.Radius = DefaultRadius.RadiusXL

(* C22: starting from theme.New() or theme.NewDark(), after any number of *)
(* ToggleDark calls IsDark is true exactly when Colors is the dark colour *)
(* scheme; each call flips IsDark and leaves Typography, Spacing and      *)
(* Radius alone; two consecutive calls restore Colors, DarkColors and     *)
(* IsDark (the whole theme) to what they were.                            *)
C22_ToggleDark ==
    /\ [](th.IsDark <=> th.Colors = DarkColorScheme)
    /\ [](~th.IsDark <=> th.Colors = LightColorScheme)
    /\ [][toggled' # toggled =>
            /\ th'.IsDark = ~th.IsDark
            /\ th'.Typography = th.Typography
            /\ th'.Spacing = th.Spacing
            /\ th'.Radius = th.Radius
         ]_vars
    /\ [](Len(toggled) = 2 =>
            /\ th.Colors = toggled[1].Colors
            /\ th.DarkColors = toggled[1].DarkColors
            /\ th.IsDark = toggled[1].IsDark
            /\ th = toggled[1])

C22_Witness ==
    /\ Len(toggled) = 2
    /\ toggled[1] = NewDark
    /\ toggled[2].IsDark = FALSE
    /\ th.IsDark
    /\ th.Colors = DarkColorScheme

(* The switch is on a token and the guard of a case is evaluated next. *)
Testing == at \in 1..Len(toFold) /\ tested < Len(Cases)

(* The guard with this literal was evaluated on the token before. *)
Tested(lit) == \E j \in 1..tested : Cases[j].lit = lit

SidePaddingPrefixes == {"px-", "py-", "pt-", "pr-", "pb-", "pl-"}

AxisMarginPrefixes == {"mx-", "my-"}

Holding(class) == {k \in DOMAIN Cases : caseHolds(Cases[k], class)}

(* C24: the case guards of parseClass are mutually exclusive: on every    *)
(* token at most one of the prefix tests (p-, px-, py-, pt-, pr-, pb-,    *)
(* pl-, m-, mx-, my-, rounded-, bg-, border-, opacity-) and exact tests   *)
(* (rounded, border) holds, so whichever holding case an ordering of the  *)
(* switch reaches first, the record produced is the one the code gives.   *)
C24_GuardsExclusive ==
    /\ [](\A n \in 1..Len(toFold) : Cardinality(Holding(toFold[n])) <= 1)
    /\ [][(at \in 1..Len(toFold) /\ at' = at + 1) =>
            LET class == toFold[at]
            IN  /\ \A k \in Holding(class) :
                       folded' = caseBody(k, class, folded)
                /\ Holding(class) = {} => folded' = folded
         ]_vars

C24_Witness ==
    /\ toFold = <<"border", "rounded">>
    /\ at = 3
    /\ initial = InitialStyle
    /\ folded.Border.Width = 1
    /\ folded.Radius = 4
    /\ folded.Border.Color = ZeroColor

(* C25: folding a token twice in a row gives the record folding it once   *)
(* gives, whatever the record before: the second fold of a token equal to *)
(* the one just folded changes nothing, so a token duplicated next to     *)
(* itself in the class string does not change the result.                 *)
C25_TokenIdempotent ==
    /\ [][(at \in 2..Len(toFold) /\ at' = at + 1
              /\ toFold[at] = toFold[at - 1]) => folded' = folded]_vars
    /\ []((at = 3 /\ Len(toFold) = 2 /\ toFold[1] = toFold[2]) =>
              folded = parseClass(toFold[1], initial))

C25_Witness ==
    /\ toFold = <<"px-2", "px-2">>
    /\ at = 3
    /\ initial = ForeignStyle
    /\ folded.Padding = [Top |-> 1, Bottom |-> 2, Left |-> 8, Right |-> 8]

(* The parts of the record a token can write: <<field, side>> for an      *)
(* inset side, <<field>> otherwise; none for a token no case takes.       *)
Writes(t) ==
    IF \E p \in SpacingPrefixes : HasPrefix(t, p)
    THEN LET p == CHOOSE q \in SpacingPrefixes : HasPrefix(t, q)
         IN  {<<SpacingField(p), side>> : side \in SpacingSides(p)}
    ELSE IF t = "rounded" \/ HasPrefix(t, "rounded-") THEN {<<"Radius">>}
    ELSE IF HasPrefix(t, "bg-") THEN {<<"Background">>}
    ELSE IF HasPrefix(t, "border-") THEN {<<"Border", "Color">>}
    ELSE IF t = "border" THEN {<<"Border", "Width">>}
    ELSE IF HasPrefix(t, "opacity-") THEN {<<"Opacity">>}
    ELSE {}

(* The token list with the tokens at j and j + 1 exchanged. *)
Swap(toks, j) ==
    [n \in 1..Len(toks) |->
        IF n = j THEN toks[j + 1] ELSE IF n = j + 1 THEN toks[j] ELSE toks[n]]

(* C26: tokens that write disjoint parts of the record commute: swapping  *)
(* two adjacent tokens of different families (padding, margin, radius,    *)
(* background, border colour, border width, opacity), or two padding or   *)
(* margin tokens covering disjoint sides, does not change the result of   *)
(* ParseClasses; a swap that changes it exchanges two tokens writing a    *)
(* common field or side.                                                  *)
C26_DisjointCommute ==
    pc = "done" =>
        \A j \in 1..(Len(classList) - 1) :
            Writes(classList[j]) \cap Writes(classList[j + 1]) = {} =>
                ParseClasses(<<Join(Swap(classList, j), " ")>>) = style

C26_Witness ==
    /\ pc = "done"
    /\ classList = <<"pt-1", "px-2", "bg-red">>
    /\ style.Padding = [Top |-> 4, Bottom |-> 0, Left |-> 8, Right |-> 8]
    /\ ParseClasses(<<"px-2 pt-1 bg-red">>) = style
    /\ ParseClasses(<<"pt-1 bg-red px-2">>) = style

(* C27: a partial padding class replaces the whole inset: when the parsed *)
(* Padding has a non-zero side, Button.Layout and Card.Layout use the     *)
(* parsed inset for all four sides, so a Button with classes "px-4" is    *)
(* laid out with left = right = 16 and top = bottom = 0, not with the     *)
(* size default on top and bottom.                                        *)
C27_PartialPaddingReplaces ==
    frame.kind # "none" =>
        /\ (\E side \in Sides : frame.styles.Padding[side] # 0) =>
              \A side \in Sides : frame.padding[side] = frame.styles.Padding[side]
        /\ frame.classes = "px-4" =>
              frame.padding = [Top |-> 0, Bottom |-> 0, Left |-> 16, Right |-> 16]

C27_Witness ==
    /\ frame.kind = "button"
    /\ frame.classes = "px-4"
    /\ button.Size = "SizeLG"
    /\ frame.styles.Padding.Top = 0
    /\ frame.padding.Top = 0
    /\ frame.padding.Left = 16

(* C28: a disabled button never fires its handler: in any sequence of     *)
(* clicks, SetDisabled and Layout calls, OnClick is invoked only inside a *)
(* Layout call in which a click was registered, Disabled is false and     *)
(* OnClick is non-nil, at most once per Layout call; and Clicked reports  *)
(* false whenever Disabled is true.                                       *)
C28_DisabledNeverFires ==
    /\ [](frame.kind = "button" =>
             /\ frame.onClicks <= 1
             /\ frame.onClicks > 0 => (frame.clicked /\ ~frame.disabled)
             /\ frame.disabled => frame.onClicks = 0)
    /\ [][(frame' # frame /\ frame'.kind = "button" /\ frame'.onClicks > 0) =>
             /\ frame'.clicked
             /\ ~button.Disabled
             /\ button.OnClick # "nil"
         ]_vars
    /\ []((answer.op = "Clicked" /\ answer.disabled) => ~answer.value)

C28_Witness ==
    /\ frame.kind = "button"
    /\ frame.clicked
    /\ frame.disabled
    /\ frame.onClicks = 0
    /\ button.OnClick = "handler"
    /\ answer.op = "Clicked"
    /\ answer.clicked
    /\ answer.disabled
    /\ ~answer.value

(* The call of SafeLayout that answer records had to be refused. *)
Refused ==
    \/ answer.b = <<>>
    \/ answer.t = <<>>
    \/ /\ answer.b # <<>>
       /\ \/ answer.b[1].clickable = "nil"
          \/ answer.b[1].Text = "" /\ answer.b[1].Icon = "nil"

(* C30: SafeLayout validates before laying out: with a nil button, a     *)
(* button without clickable, a button with neither text nor icon, or a    *)
(* nil theme it returns an error and zero Dimensions and Layout does not  *)
(* run (OnClick is not invoked, the style cache is not modified); in      *)
(* every other case it returns Layout's dimensions and a nil error.       *)
C30_SafeLayoutValidates ==
    /\ [](answer.op = "SafeLayout" =>
             IF Refused
             THEN answer.err # "nil" /\ answer.dims = ZeroDimensions
             ELSE answer.err = "nil" /\ answer.dims.kind = "button")
    /\ [][(answer' # answer /\ answer'.op = "SafeLayout") =>
             IF answer'.err # "nil"
             THEN UNCHANGED <<button, frame>>
             ELSE answer'.dims = frame' /\ answer'.b = <<button>>
         ]_vars

C30_Witness ==
    /\ answer.op = "SafeLayout"
    /\ answer.err = "button must have either text or icon"
    /\ answer.dims = ZeroDimensions
    /\ button.OnClick = "handler"
    /\ ~button.Disabled
    /\ ~button.stylesCacheValid
    /\ frame = NoFrame

(* The window actions the last Layout call performed. *)
Performed == {performed[n] : n \in 1..Len(performed)}

(* C29: the maximize state stays in step with its button: on a window     *)
(* that supports Perform, isMaximized starts false and every              *)
(* toggleMaximize call flips it, performing Maximize when it was false    *)
(* and Unmaximize when it was true, and the maximize button text is       *)
(* U+2750 exactly when isMaximized is true (U+2610 otherwise); on a       *)
(* window that does not support Perform a call changes neither            *)
(* isMaximized nor the text.                                              *)
C29_MaximizeInStep ==
    /\ [](tb.maximizeText = ShadowedSquare <=> tb.isMaximized)
    /\ [](tb.maximizeText = BallotBox <=> ~tb.isMaximized)
    /\ [][tb'.isMaximized # tb.isMaximized =>
            /\ SupportsPerform(tb.window)
            /\ IF tb.isMaximized
               THEN {"ActionMaximize", "ActionUnmaximize"} \cap
                       {performed'[n] : n \in 1..Len(performed')}
                          = {"ActionUnmaximize"}
               ELSE {"ActionMaximize", "ActionUnmaximize"} \cap
                       {performed'[n] : n \in 1..Len(performed')}
                          = {"ActionMaximize"}
         ]_vars
    /\ []("ActionMaximize" \in Performed => tb.isMaximized)
    /\ []("ActionUnmaximize" \in Performed => ~tb.isMaximized)
    /\ [](~SupportsPerform(tb.window) =>
            /\ ~tb.isMaximized
            /\ tb.maximizeText = BallotBox
            /\ Performed \subseteq {"OnClose"})

C29_Witness ==
    /\ SupportsPerform(tb.window)
    /\ ~tb.isMaximized
    /\ tb.maximizeText = BallotBox
    /\ performed = <<"ActionMinimize", "ActionUnmaximize", "ActionClose">>

====
